---- MODULE Spec2Model ----
(***************************************************************************)
(* Image generation of rabberdabber/content-gen.                           *)
(*                                                                         *)
(*   svc   : AIGenerator.generate_image   (services/ai_generator.py)        *)
(*   route : POST /ai/generate-image      (api/routes/ai.py)                *)
(*                                                                         *)
(* The route reads file_storage_settings.BASE_URL, which the settings      *)
(* class does not define, right after it saved the file: the lines that    *)
(* follow it (the Image row, the commit, the descriptor) never run.        *)
(*                                                                         *)
(* Every await of the source is one step of a call, so that calls of       *)
(* different clients interleave at the suspension points of the code.      *)
(* Text is a sequence of fragments: an f-string is the concatenation of    *)
(* its parts.                                                              *)
(***************************************************************************)
EXTENDS Integers, Sequences, FiniteSets, TLC

\* ------------------------------------------------------------------ bounds
\* largest value of settings.IMAGE_GENERATION_POLL_MAX_ATTEMPTS explored
MaxAttempts == 3

\* the calls (requests) that may be in flight
Calls == {1, 2}

\* ------------------------------------------------------- values of python
None == "None"

\* ImageGenerationResultStatus
TASK_NOT_FOUND == "Task not found"
PENDING == "Pending"
REQUEST_MODERATED == "Request Moderated"
CONTENT_MODERATED == "Content Moderated"
READY == "Ready"
ERROR == "Error"

ImageGenerationResultStatus ==
    {TASK_NOT_FOUND, PENDING, REQUEST_MODERATED, CONTENT_MODERATED, READY, ERROR}

\* a status string the enum does not know, and a payload without "status"
UnknownStatuses == {"Queued", None}

\* what result_data.get("status") can be
PollStatuses == ImageGenerationResultStatus \cup UnknownStatuses

\* the "result" member of a poll payload: absent, or {"sample": url}
SampleUrl == "https://p/x.jpg"
NoResultMember == [present |-> FALSE, sample |-> None]
ResultMembers == {NoResultMember, [present |-> TRUE, sample |-> SampleUrl]}

\* the payloads GET /get_result can answer with
PollPayloads == [status : PollStatuses, result : ResultMembers]

\* the "id" member of the submit response: two spellings of one UUID, a
\* string that is no UUID, or no id at all
TaskIds == {"0f0e-aa", "0F0E-AA", "task-1"}
SubmitIds == TaskIds \cup {None}

\* uuid.UUID(s): the parsed value, or None when the constructor raises
UUID(s) == IF s \in {"0f0e-aa", "0F0E-AA"} THEN "uuid:0f0e-aa" ELSE None

\* str(uuid): the canonical spelling
UUIDStr(u) == IF u = "uuid:0f0e-aa" THEN "0f0e-aa" ELSE None

\* str.lower() on the extensions that occur
Lower(s) == CASE s = "JPEG" -> "jpeg" [] s = "PNG" -> "png" [] OTHER -> s

\* the client's request (FluxPro11UltraCreate)
FLUX_PRO_1_1_ULTRA == "flux-pro-1.1-ultra"
Requests ==
    [prompt : {"a red fox"}, model : {FLUX_PRO_1_1_ULTRA},
     output_format : {"jpeg", "png"}]

\* ------------------------------------------------------------- responses
Response(content, status_code) ==
    [type |-> "text", status_code |-> status_code, content |-> content]

ImageResult(id, prompt, model, url) ==
    [type |-> "ImageResult", id |-> id, prompt |-> prompt, model |-> model,
     url |-> url]

NoReturn == [type |-> "none"]

\* str(e) of HTTPException(status_code, detail)
HTTPExceptionStr(status_code, detail) == <<status_code, ": ">> \o detail

\* mutant: the except clause drops str(e)
ErrorGeneratingImage_generic(msg) == Response(<<"Error generating image">>, 500)

\* the except clause of generate_image
ErrorGeneratingImage(msg) == Response(<<"Error generating image: ">> \o msg, 500)

TimeoutResponse == Response(<<"Timeout waiting for image generation">>, 408)

\* mutant: the pairs of Task not found and Error are exchanged
STATUS_RESPONSES_swapped ==
    [s \in {ERROR, TASK_NOT_FOUND, REQUEST_MODERATED, CONTENT_MODERATED, PENDING} |->
        CASE s = ERROR -> <<404, "Task not found">>
          [] s = TASK_NOT_FOUND -> <<500, "Image generation failed">>
          [] s = REQUEST_MODERATED ->
                <<400, "Request was moderated due to content policy">>
          [] s = CONTENT_MODERATED ->
                <<400, "Generated content was moderated due to content policy">>
          [] s = PENDING -> <<200, "Pending">>]

\* AIGenerator.STATUS_RESPONSES
STATUS_RESPONSES ==
    [s \in {ERROR, TASK_NOT_FOUND, REQUEST_MODERATED, CONTENT_MODERATED, PENDING} |->
        CASE s = ERROR -> <<500, "Image generation failed">>
          [] s = TASK_NOT_FOUND -> <<404, "Task not found">>
          [] s = REQUEST_MODERATED ->
                <<400, "Request was moderated due to content policy">>
          [] s = CONTENT_MODERATED ->
                <<400, "Generated content was moderated due to content policy">>
          [] s = PENDING -> <<200, "Pending">>]

\* the statuses of the fourth case of the match statement
TerminalFailures == {ERROR, TASK_NOT_FOUND, REQUEST_MODERATED, CONTENT_MODERATED}

\* messages of the exceptions the collaborators raise
TransportError == <<"ConnectError">>
ValueErrorStr == <<"badly formed hexadecimal UUID string">>

VARIABLES
    max_attempts,   \* settings.IMAGE_GENERATION_POLL_MAX_ATTEMPTS
    kind,           \* kind[c]: which handler serves call c
    request,        \* request[c]: the request data
    pc,             \* pc[c]: where call c is suspended
    task_id,        \* task_id[c]
    attempt,        \* attempt[c]: the loop counter
    polled,         \* polled[c]: the payload of the latest poll
    image_url,      \* image_url[c]: what the ready branch extracted
    download,       \* download[c]: [content, content_type] of the asset
    unique_filename,\* unique_filename[c]: the object key / file name
    log,            \* log[c]: the calls made to collaborators, in order
    returned,       \* returned[c]: what the handler returned
    raised,         \* raised[c]: str(e) of the exception the try block raised
    bucket,         \* whether the S3 bucket exists
    objects,        \* the S3 objects: records [Key, Body, ContentType, Metadata]
    files,          \* the upload directory: records [name, content]
    db,             \* the rows of table image
    st_pc,          \* where the generator _stream_content stands
    st_doc,         \* the document the language model is writing
    st_acc,         \* how many of its nodes the provider has received
    st_events,      \* the events the generator has consumed, in order
    st_lines,       \* the lines the generator has yielded, in order
    st_request,     \* [tone, prompt]: the tone argument, content_request.prompt
    st_template,    \* prompt_template["content"], as fragments of text
    st_messages,    \* the messages handed to the provider, <<>> before that
    sc_doc,         \* the JSON document handed to PostContent
    sc_result,      \* what its validation gave
    up_pc,          \* up_pc[u]: where upload_image call u is suspended
    up_file,        \* up_file[u]: the UploadFile, [filename, content]
    up_meta,        \* up_meta[u]: metadata.get("id")
    up_path,        \* up_path[u]: file_path, <<>> while it is None
    up_log,         \* up_log[u]: what call u did to disk and database
    up_after,       \* up_after[u]: the calls that were over when u began
    up_returned,    \* up_returned[u]: the UploadResult returned
    up_raised       \* up_raised[u]: the exception that left upload_image

vars == <<max_attempts, kind, request, pc, task_id, attempt, polled, image_url,
          download, unique_filename, log, returned, raised, bucket, objects,
          files, db, st_pc, st_doc, st_acc, st_events, st_lines, st_request,
          st_template, st_messages, sc_doc, sc_result, up_pc, up_file, up_meta, up_path, up_log, up_after,
          up_returned, up_raised>>

\* the state of a content-draft stream
streamVars == <<st_pc, st_doc, st_acc, st_events, st_lines, st_request,
                st_template, st_messages>>

\* the state of a validation
schemaVars == <<sc_doc, sc_result>>

\* the state of the calls of LocalImageUploader.upload_image
localVars == <<up_pc, up_file, up_meta, up_path, up_log, up_after,
               up_returned, up_raised>>

\* the state of one image-generation call
callVars == <<max_attempts, kind, request, pc, task_id, attempt, polled,
              image_url, download, unique_filename, log, returned, raised>>

\* what the steps of image generation leave alone
nonImage == <<streamVars, schemaVars, localVars>>

shared == <<bucket, objects, files, db>>

\* what the content stream leaves alone
nonStream == <<schemaVars, callVars, shared, localVars>>

\* what a validation leaves alone
nonSchema == <<streamVars, callVars, shared, localVars>>

\* ----------------------------------------------------------------- helpers
Set(f, c, v) == [f EXCEPT ![c] = v]

Logged(c, ev) == log' = [log EXCEPT ![c] = Append(@, ev)]

Count(seq, ev) == Cardinality({i \in DOMAIN seq : seq[i] = ev})

\* generate_image returns r from its try block
Return(c, r) ==
    /\ returned' = Set(returned, c, r)
    /\ pc' = Set(pc, c, "done")
    /\ UNCHANGED raised

\* an exception with str(e) = msg is raised in the try block of
\* generate_image: the except clause returns the 500 response
Raise(c, msg) ==
    /\ raised' = Set(raised, c, msg)
    /\ returned' = Set(returned, c, ErrorGeneratingImage(msg))
    /\ pc' = Set(pc, c, "done")

\* no exception was raised: the empty text
NoException == <<>>

\* before the first answer
NoPayload == [status |-> "(not polled)", result |-> NoResultMember]
NoDownload == [status_code |-> 0, content |-> <<>>, content_type |-> None]

\* no content-draft stream is open
NoStream ==
    /\ st_pc = "off"
    /\ st_doc = <<>>
    /\ st_acc = 0
    /\ st_events = <<>>
    /\ st_lines = <<>>
    /\ st_request = <<>>
    /\ st_template = <<>>
    /\ st_messages = <<>>

\* one request for an image is served, by the service or by the route
\* no document is being validated
NoSchema == sc_doc = <<>> /\ sc_result = "(not validated)"

\* the fields of a call before its handler runs
FreshCalls ==
    /\ pc = [c \in Calls |-> "start"]
    /\ task_id = [c \in Calls |-> None]
    /\ attempt = [c \in Calls |-> 0]
    /\ polled = [c \in Calls |-> NoPayload]
    /\ image_url = [c \in Calls |-> None]
    /\ download = [c \in Calls |-> NoDownload]
    /\ unique_filename = [c \in Calls |-> <<>>]
    /\ log = [c \in Calls |-> <<>>]
    /\ returned = [c \in Calls |-> NoReturn]
    /\ raised = [c \in Calls |-> NoException]

\* no image is being generated
NoCalls ==
    /\ max_attempts = MaxAttempts
    /\ kind = [c \in Calls |-> "idle"]
    /\ request = [c \in Calls |-> CHOOSE r \in Requests : TRUE]
    /\ FreshCalls

\* the calls of the local uploader
UploadCalls == {1, 2}

\* upload_image raised nothing
NoRaise == [type |-> "none", status_code |-> "", detail |-> <<>>]

\* the fields of an upload before upload_image is entered
FreshUploads ==
    /\ up_path = [u \in UploadCalls |-> <<>>]
    /\ up_log = [u \in UploadCalls |-> <<>>]
    /\ up_after = [u \in UploadCalls |-> {}]
    /\ up_returned = [u \in UploadCalls |-> NoReturn]
    /\ up_raised = [u \in UploadCalls |-> NoRaise]

\* nothing is uploaded through the local uploader
NoUploads ==
    /\ up_pc = [u \in UploadCalls |-> "idle"]
    /\ up_file = [u \in UploadCalls |-> [filename |-> <<>>, content |-> <<>>]]
    /\ up_meta = [u \in UploadCalls |-> None]
    /\ FreshUploads

\* the stores before anything was uploaded
EmptyStores == objects = {} /\ files = {} /\ db = {}

Init ==
    /\ NoStream
    /\ NoSchema
    /\ NoUploads
    /\ max_attempts \in 0..MaxAttempts
    /\ kind \in {k \in [Calls -> {"svc", "route", "idle"}] :
                    k[1] # "idle" /\ k[2] = "idle"}
    /\ request \in {r \in [Calls -> Requests] : r[2] = r[1]}
    /\ FreshCalls
    /\ bucket \in BOOLEAN
    /\ EmptyStores

\* =================================================== AIGenerator (svc)
\* _start_image_generation, called in the try block of generate_image
start_image_generation(c) ==
    /\ kind[c] = "svc"
    /\ pc[c] = "start"
    /\ Logged(c, "submit")
    /\ \/ \* client.post raises
          /\ Raise(c, TransportError)
          /\ UNCHANGED task_id
       \/ \E id \in SubmitIds :
            IF id = None
            THEN /\ Raise(c, (
                        HTTPExceptionStr("500", <<"Failed to start image generation: ", "data">>)))
                 /\ UNCHANGED task_id
            ELSE /\ task_id' = Set(task_id, c, id)
                 /\ pc' = Set(pc, c, "loop")
                 /\ UNCHANGED <<returned, raised>>
    /\ UNCHANGED <<max_attempts, kind, request, attempt, polled, image_url,
                   download, unique_filename, shared>>
    /\ UNCHANGED nonImage


\* mutant: one poll too many
LoopCondition_inclusive(a, max) == a <= max

\* _poll_generation_status: the while condition
LoopCondition(a, max) == a < max

\* mutant: an unrecognised status is polled again
StatusCase_unknownPending(status) ==
    CASE status = READY -> "ready"
      [] status = PENDING -> "pending"
      [] status \in TerminalFailures -> "failure"
      [] OTHER -> "pending"

\* mutant: Error takes the ready branch
StatusCase_errorReady(status) ==
    CASE status \in {READY, ERROR} -> "ready"
      [] status = PENDING -> "pending"
      [] status \in TerminalFailures -> "failure"
      [] OTHER -> "other"

\* mutant: Pending is looked up in STATUS_RESPONSES like the failures
StatusCase_pendingMapped(status) ==
    CASE status = READY -> "ready"
      [] status \in TerminalFailures \cup {PENDING} -> "failure"
      [] OTHER -> "other"

\* _poll_generation_status: the case of the match statement a status takes
StatusCase(status) ==
    CASE status = READY -> "ready"
      [] status = PENDING -> "pending"
      [] status \in TerminalFailures -> "failure"
      [] OTHER -> "other"

\* mutant: the wrong member is read
ExtractSample_wrongKey(payload) == None

\* result_data.get("result", {}).get("sample")
ExtractSample(payload) == payload.result.sample

\* _poll_generation_status: top of the loop; a poll is issued, or the
\* budget is spent and the 408 response is returned
poll_generation_status(c) ==
    /\ kind[c] = "svc"
    /\ pc[c] = "loop"
    /\ IF LoopCondition(attempt[c], max_attempts)
       THEN /\ Logged(c, "poll")
            /\ pc' = Set(pc, c, "poll")
            /\ UNCHANGED <<returned, raised>>
       ELSE /\ Return(c, TimeoutResponse)
            /\ UNCHANGED log
    /\ UNCHANGED <<max_attempts, kind, request, task_id, attempt, polled,
                   image_url, download, unique_filename, shared>>
    /\ UNCHANGED nonImage

\* mutant: the Pending case counts the attempt and polls again at once
check_generation_status_noSleep(c) ==
    /\ kind[c] = "svc"
    /\ pc[c] = "poll"
    /\ \/ \* client.get raises
          /\ Raise(c, TransportError)
          /\ UNCHANGED <<polled, image_url, log, attempt>>
       \/ \E payload \in PollPayloads :
            /\ polled' = Set(polled, c, payload)
            /\ log' = Set(log, c, log[c] \o <<payload.status>>)
            /\ attempt' = Set(attempt, c,
                    IF StatusCase(payload.status) = "pending"
                    THEN attempt[c] + 1 ELSE attempt[c])
            /\ CASE StatusCase(payload.status) = "ready" ->
                      /\ image_url' = Set(image_url, c, ExtractSample(payload))
                      /\ pc' = Set(pc, c, "download")
                      /\ UNCHANGED <<returned, raised>>
                 [] StatusCase(payload.status) = "pending" ->
                      /\ pc' = Set(pc, c, "loop")
                      /\ UNCHANGED <<returned, raised, image_url>>
                 [] StatusCase(payload.status) = "failure" ->
                      /\ Return(c, Response(<<STATUS_RESPONSES[payload.status][2]>>,
                                            STATUS_RESPONSES[payload.status][1]))
                      /\ UNCHANGED image_url
                 [] OTHER ->
                      /\ Raise(c, (
                            HTTPExceptionStr("500", <<"Image generation failed: ", "result_data">>)))
                      /\ UNCHANGED image_url
    /\ UNCHANGED <<max_attempts, kind, request, task_id, download,
                   unique_filename, shared>>
    /\ UNCHANGED nonImage

\* _check_generation_status answers (or raises) and the match statement of
\* _poll_generation_status takes its case
check_generation_status(c) ==
    /\ kind[c] = "svc"
    /\ pc[c] = "poll"
    /\ \/ \* client.get raises
          /\ Raise(c, TransportError)
          /\ UNCHANGED <<polled, image_url, log>>
       \/ \E payload \in PollPayloads :
            /\ polled' = Set(polled, c, payload)
            /\ log' = Set(log, c, log[c] \o <<payload.status>>)
            /\ CASE StatusCase(payload.status) = "ready" ->
                      /\ image_url' = Set(image_url, c, ExtractSample(payload))
                      /\ pc' = Set(pc, c, "download")
                      /\ UNCHANGED <<returned, raised>>
                 [] StatusCase(payload.status) = "pending" ->
                      /\ pc' = Set(pc, c, "sleep")
                      /\ UNCHANGED <<returned, raised, image_url>>
                 [] StatusCase(payload.status) = "failure" ->
                      /\ Return(c, Response(<<STATUS_RESPONSES[payload.status][2]>>,
                                            STATUS_RESPONSES[payload.status][1]))
                      /\ UNCHANGED image_url
                 [] OTHER ->
                      /\ Raise(c, (
                            HTTPExceptionStr("500", <<"Image generation failed: ", "result_data">>)))
                      /\ UNCHANGED image_url
    /\ UNCHANGED <<max_attempts, kind, request, task_id, attempt, download,
                   unique_filename, shared>>
    /\ UNCHANGED nonImage

\* mutant: attempt += 2
sleep_double(c) ==
    /\ kind[c] = "svc"
    /\ pc[c] = "sleep"
    /\ Logged(c, "sleep")
    /\ attempt' = Set(attempt, c, attempt[c] + 2)
    /\ pc' = Set(pc, c, "loop")
    /\ UNCHANGED <<max_attempts, kind, request, task_id, polled, image_url,
                   download, unique_filename, returned, raised, shared>>
    /\ UNCHANGED nonImage

\* asyncio.sleep returns; attempt += 1; continue
sleep(c) ==
    /\ kind[c] = "svc"
    /\ pc[c] = "sleep"
    /\ Logged(c, "sleep")
    /\ attempt' = Set(attempt, c, attempt[c] + 1)
    /\ pc' = Set(pc, c, "loop")
    /\ UNCHANGED <<max_attempts, kind, request, task_id, polled, image_url,
                   download, unique_filename, returned, raised, shared>>
    /\ UNCHANGED nonImage

\* mutant: the status of the download is not looked at
DownloadFailed_never(status_code) == FALSE

\* _download_generated_image: response.status_code != 200
DownloadFailed(status_code) == status_code # 200

\* _download_generated_image, the first step of _handle_ready_status
download_generated_image(c) ==
    /\ kind[c] = "svc"
    /\ pc[c] = "download"
    /\ IF image_url[c] = None
       THEN \* client.get(None) raises before a request is sent
            /\ Raise(c, <<"Invalid type for url">>)
            /\ UNCHANGED <<log, download>>
       ELSE /\ Logged(c, "download")
            /\ \/ /\ Raise(c, TransportError)
                  /\ UNCHANGED download
               \/ \E status_code \in {200, 404}, header \in {None, "image/png"} :
                    IF DownloadFailed(status_code)
                    THEN /\ Raise(c, (HTTPExceptionStr("500",
                                <<"Failed to download image from ", image_url[c]>>)))
                         /\ download' = Set(download, c,
                                [NoDownload EXCEPT !.status_code = status_code])
                    ELSE /\ download' = Set(download, c,
                                [status_code |-> status_code,
                                 content |-> <<"bytes of ", image_url[c]>>,
                                 content_type |->
                                    IF header = None THEN "image/jpeg" ELSE header])
                         /\ pc' = Set(pc, c, "upload")
                         /\ UNCHANGED <<returned, raised>>
    /\ UNCHANGED <<max_attempts, kind, request, task_id, attempt, polled,
                   image_url, unique_filename, shared>>
    /\ UNCHANGED nonImage

\* ------------------------------------------------ S3MediaUploader (svc)
MINIO_BUCKET_NAME == "media"

\* S3MediaUploader.generate_unique_filename; a file name is <<stem, ".", ext>>
\* and filename.rsplit(".", 1)[1] is its third part
generate_unique_filename(file_id, filename) ==
    <<UUIDStr(file_id), ".", Lower(filename[3])>>

\* S3MediaUploader.get_object_url
get_object_url(bucket_name, key) ==
    <<"MINIO_BASE_URL", "/", bucket_name, "/">> \o key

\* str(e) of the HTTPException the except clause of upload_media raises
ErrorUploadingFile == HTTPExceptionStr("500", <<"Error uploading file">>)

\* _handle_ready_status: filename = f"{task_id}.{output_format}"
ReadyFilename(c) == <<task_id[c], ".", request[c].output_format>>

\* _handle_ready_status: the metadata handed to the uploader
ReadyMetadata(c) ==
    [id |-> task_id[c], prompt |-> request[c].prompt,
     model |-> request[c].model, media_type |-> "image"]

\* _handle_ready_status calls _upload_to_s3, which enters upload_media:
\* file_id and unique_filename are computed before the try block
upload_to_s3(c) ==
    /\ kind[c] = "svc"
    /\ pc[c] = "upload"
    /\ IF UUID(ReadyMetadata(c).id) = None
       THEN /\ Raise(c, ValueErrorStr)
            /\ UNCHANGED unique_filename
       ELSE /\ unique_filename' = Set(unique_filename, c,
                generate_unique_filename(UUID(ReadyMetadata(c).id), ReadyFilename(c)))
            /\ pc' = Set(pc, c, "head_bucket")
            /\ UNCHANGED <<returned, raised>>
    /\ UNCHANGED <<max_attempts, kind, request, task_id, attempt, polled,
                   image_url, download, log, shared>>
    /\ UNCHANGED nonImage

\* _ensure_bucket_exists: head_bucket answers
ensure_bucket_exists(c) ==
    /\ kind[c] = "svc"
    /\ pc[c] = "head_bucket"
    /\ \/ \* an exception that is no ClientError
          /\ Logged(c, "head_bucket failed")
          /\ Raise(c, ErrorUploadingFile)
       \/ /\ bucket
          /\ pc' = Set(pc, c, "put_object")
          /\ UNCHANGED <<returned, raised, log>>
       \/ \* ClientError: the bucket is missing
          /\ ~bucket
          /\ pc' = Set(pc, c, "create_bucket")
          /\ UNCHANGED <<returned, raised, log>>
    /\ UNCHANGED <<max_attempts, kind, request, task_id, attempt, polled,
                   image_url, download, unique_filename, shared>>
    /\ UNCHANGED nonImage

\* _ensure_bucket_exists: create_bucket answers
create_bucket(c) ==
    /\ kind[c] = "svc"
    /\ pc[c] = "create_bucket"
    /\ \/ \* the request fails
          /\ Logged(c, "create_bucket failed")
          /\ Raise(c, ErrorUploadingFile)
          /\ UNCHANGED bucket
       \/ \* the bucket exists by now: ClientError BucketAlreadyOwnedByYou
          /\ bucket
          /\ Logged(c, "BucketAlreadyOwnedByYou")
          /\ Raise(c, ErrorUploadingFile)
          /\ UNCHANGED bucket
       \/ /\ ~bucket
          /\ bucket' = TRUE
          /\ Logged(c, "create_bucket")
          /\ pc' = Set(pc, c, "put_object")
          /\ UNCHANGED <<returned, raised>>
    /\ UNCHANGED <<max_attempts, kind, request, task_id, attempt, polled,
                   image_url, download, unique_filename, objects, files, db>>
    /\ UNCHANGED nonImage

\* upload_media: the Metadata of the object
ObjectMetadata(meta) ==
    [media_type |-> meta.media_type, prompt |-> meta.prompt, model |-> meta.model]

\* upload_media: put_object answers
put_object(c) ==
    /\ kind[c] = "svc"
    /\ pc[c] = "put_object"
    /\ \/ /\ Logged(c, "put_object failed")
          /\ Raise(c, ErrorUploadingFile)
          /\ UNCHANGED objects
       \/ /\ bucket
          /\ objects' = {o \in objects : o.Key # unique_filename[c]} \cup
                {[Key |-> unique_filename[c], Body |-> download[c].content,
                  ContentType |-> download[c].content_type,
                  Metadata |-> ObjectMetadata(ReadyMetadata(c))]}
          /\ Logged(c, "upload")
          /\ pc' = Set(pc, c, "head_object")
          /\ UNCHANGED <<returned, raised>>
    /\ UNCHANGED <<max_attempts, kind, request, task_id, attempt, polled,
                   image_url, download, unique_filename, bucket, files, db>>
    /\ UNCHANGED nonImage

\* upload_media: head_object answers and upload_media returns its dict;
\* _handle_ready_status builds the ImageResult that generate_image returns
handle_ready_status(c) ==
    /\ kind[c] = "svc"
    /\ pc[c] = "head_object"
    /\ \/ /\ Logged(c, "head_object failed")
          /\ Raise(c, ErrorUploadingFile)
       \/ /\ \E o \in objects : o.Key = unique_filename[c]
          /\ Return(c, ImageResult(UUID(task_id[c]), request[c].prompt,
                request[c].model,
                get_object_url(MINIO_BUCKET_NAME, unique_filename[c])))
          /\ UNCHANGED log
    /\ UNCHANGED <<max_attempts, kind, request, task_id, attempt, polled,
                   image_url, download, unique_filename, shared>>
    /\ UNCHANGED nonImage

\* ============================================ POST /ai/generate-image (route)
\* the name `status` in routes/ai.py: the imported module fastapi.status
StatusModule == "<module 'fastapi.status'>"

\* generate_image.image_generation_response_dict
image_generation_response_dict ==
    [s \in {ERROR, TASK_NOT_FOUND, REQUEST_MODERATED, CONTENT_MODERATED, PENDING} |->
        CASE s = ERROR -> <<500, "Image generation failed">>
          [] s = TASK_NOT_FOUND -> <<404, "Task not found">>
          [] s = REQUEST_MODERATED ->
                <<400, "Request was moderated due to content policy">>
          [] s = CONTENT_MODERATED ->
                <<400, "Generated content was moderated due to content policy">>
          [] s = PENDING -> <<200, "Pending">>]

\* the subscript of the fourth case: image_generation_response_dict[status]
RouteFailureKey(image_generation_status) == StatusModule

\* image_generation_response_dict[key], KeyError included
RouteFailureResponse(key) ==
    IF key \in DOMAIN image_generation_response_dict
    THEN Response(<<image_generation_response_dict[key][2]>>,
                  image_generation_response_dict[key][1])
    ELSE [type |-> "KeyError", str |-> <<key>>]

\* Step 1 of the route: start the image generation
route_start(c) ==
    /\ kind[c] = "route"
    /\ pc[c] = "start"
    /\ Logged(c, "submit")
    /\ \/ /\ Raise(c, TransportError)
          /\ UNCHANGED task_id
       \/ \E id \in SubmitIds :
            IF id = None
            THEN /\ Raise(c, (
                        HTTPExceptionStr("500", <<"Failed to start image generation: ", "data">>)))
                 /\ UNCHANGED task_id
            ELSE /\ task_id' = Set(task_id, c, id)
                 /\ pc' = Set(pc, c, "loop")
                 /\ UNCHANGED <<returned, raised>>
    /\ UNCHANGED <<max_attempts, kind, request, attempt, polled, image_url,
                   download, unique_filename, shared>>
    /\ UNCHANGED nonImage

\* Step 2 of the route: top of the polling loop
route_poll(c) ==
    /\ kind[c] = "route"
    /\ pc[c] = "loop"
    /\ IF attempt[c] < max_attempts
       THEN /\ Logged(c, "poll")
            /\ pc' = Set(pc, c, "poll")
            /\ UNCHANGED <<returned, raised>>
       ELSE /\ Return(c, TimeoutResponse)
            /\ UNCHANGED log
    /\ UNCHANGED <<max_attempts, kind, request, task_id, attempt, polled,
                   image_url, download, unique_filename, shared>>
    /\ UNCHANGED nonImage

\* the poll answers and the match statement of the route takes its case
route_match(c) ==
    /\ kind[c] = "route"
    /\ pc[c] = "poll"
    /\ \/ /\ Raise(c, TransportError)
          /\ UNCHANGED <<polled, image_url, unique_filename>>
       \/ \E payload \in PollPayloads :
            /\ polled' = Set(polled, c, payload)
            /\ CASE payload.status = READY ->
                      IF ~payload.result.present
                      THEN \* result_data.get("result") is None
                           /\ Raise(c, (
                                <<"'NoneType' object has no attribute 'get'">>))
                           /\ UNCHANGED <<image_url, unique_filename>>
                      ELSE /\ image_url' = Set(image_url, c, payload.result.sample)
                           /\ unique_filename' = Set(unique_filename, c,
                                <<task_id[c], ".", request[c].output_format>>)
                           /\ pc' = Set(pc, c, "download")
                           /\ UNCHANGED <<returned, raised>>
                 [] payload.status = PENDING ->
                      /\ pc' = Set(pc, c, "sleep")
                      /\ UNCHANGED <<returned, raised, image_url, unique_filename>>
                 [] payload.status \in TerminalFailures ->
                      /\ LET r == RouteFailureResponse(RouteFailureKey(payload.status))
                         IN  IF r.type = "KeyError" THEN Raise(c, r.str)
                                                    ELSE Return(c, r)
                      /\ UNCHANGED <<image_url, unique_filename>>
                 [] OTHER ->
                      /\ Raise(c, (
                            HTTPExceptionStr("500", <<"Image generation failed: ", "result_data">>)))
                      /\ UNCHANGED <<image_url, unique_filename>>
    /\ UNCHANGED <<max_attempts, kind, request, task_id, attempt, download,
                   log, shared>>
    /\ UNCHANGED nonImage

\* asyncio.sleep returns; attempt += 1; continue
route_sleep(c) ==
    /\ kind[c] = "route"
    /\ pc[c] = "sleep"
    /\ Logged(c, "sleep")
    /\ attempt' = Set(attempt, c, attempt[c] + 1)
    /\ pc' = Set(pc, c, "loop")
    /\ UNCHANGED <<max_attempts, kind, request, task_id, polled, image_url,
                   download, unique_filename, returned, raised, shared>>
    /\ UNCHANGED nonImage

\* the attributes of FileStorageSettings (core/config.py)
FileStorageSettings ==
    {"UPLOAD_DIR", "MAX_FILE_SIZE", "ALLOWED_EXTENSIONS", "MINIO_BASE_URL",
     "MINIO_API_BASE_URL", "MINIO_ROOT_USER", "MINIO_ROOT_PASSWORD",
     "MINIO_BUCKET_NAME", "SIGNED_URL_EXPIRATION"}

\* the attribute the route reads to build the url of the saved file
RouteUrlAttribute == "BASE_URL"

\* the download answers; LocalImageUploader.save_file writes the file; then
\* the route reads file_storage_settings.BASE_URL to build the Image row
route_download(c) ==
    /\ kind[c] = "route"
    /\ pc[c] = "download"
    /\ \/ /\ Logged(c, "download")
          /\ Raise(c, TransportError)
          /\ UNCHANGED <<download, files>>
       \/ \E status_code \in {200, 404} :
            IF status_code # 200
            THEN /\ Logged(c, "download")
                 /\ Raise(c, (HTTPExceptionStr("500",
                        <<"Failed to download image from ", image_url[c]>>)))
                 /\ download' = Set(download, c,
                        [NoDownload EXCEPT !.status_code = status_code])
                 /\ UNCHANGED files
            ELSE /\ download' = Set(download, c,
                        [status_code |-> status_code,
                         content |-> <<"bytes of ", image_url[c]>>,
                         content_type |-> None])
                 /\ \/ \* open() or write() raises
                       /\ log' = Set(log, c, log[c] \o <<"download">>)
                       /\ Raise(c, <<"OSError">>)
                       /\ UNCHANGED files
                    \/ /\ files' = {f \in files : f.name # unique_filename[c]} \cup
                            {[name |-> unique_filename[c],
                              content |-> <<"bytes of ", image_url[c]>>]}
                       /\ log' = Set(log, c, log[c] \o <<"download", "file">>)
                       /\ RouteUrlAttribute \notin FileStorageSettings
                       /\ Raise(c, <<"'FileStorageSettings' object has no attribute '",
                                     RouteUrlAttribute, "'">>)
    /\ UNCHANGED <<max_attempts, kind, request, task_id, attempt, polled,
                   image_url, unique_filename, bucket, objects, db>>
    /\ UNCHANGED nonImage

Next ==
    \E c \in Calls :
        \/ start_image_generation(c)
        \/ poll_generation_status(c)
        \/ check_generation_status(c)
        \/ sleep(c)
        \/ download_generated_image(c)
        \/ upload_to_s3(c)
        \/ ensure_bucket_exists(c)
        \/ create_bucket(c)
        \/ put_object(c)
        \/ handle_ready_status(c)
        \/ route_start(c)
        \/ route_poll(c)
        \/ route_match(c)
        \/ route_sleep(c)
        \/ route_download(c)

Spec == Init /\ [][Next]_vars

\* ================================================================ claims
Svc == {c \in Calls : kind[c] = "svc"}
Route == {c \in Calls : kind[c] = "route"}

Polls(c) == Count(log[c], "poll")
Sleeps(c) == Count(log[c], "sleep")
Downloads(c) == Count(log[c], "download")
Uploads(c) == Count(log[c], "upload")
FileWrites(c) == Count(log[c], "file")
Persists(c) == Count(log[c], "persist")

\* the steps of the ready handler of AIGenerator
HandlerSteps == {"download", "upload", "head_bucket", "create_bucket",
                 "put_object", "head_object", "done"}

\* C1: once a poll of AIGenerator has answered Ready, the sample of that
\* payload is what the ready handler was given, the call is in the handler
\* or has returned what the handler produced (never the timeout or a mapped
\* failure), and the polls issued are the Pending ones plus that one.
C1_FirstReadyWins ==
    \A c \in Svc :
        polled[c].status = READY =>
            /\ image_url[c] = polled[c].result.sample
            /\ pc[c] \in HandlerSteps
            /\ Polls(c) = attempt[c] + 1
            /\ attempt[c] < max_attempts
            /\ pc[c] = "done" =>
                \/ /\ returned[c].type = "ImageResult"
                   /\ Downloads(c) = 1 /\ Uploads(c) = 1
                \/ /\ raised[c] # NoException
                   /\ returned[c] = Response(<<"Error generating image: ">> \o raised[c], 500)

\* Pending twice, then Ready, and the descriptor came back
C1_Witness ==
    \E c \in Svc :
        /\ polled[c].status = READY /\ attempt[c] = 2
        /\ returned[c].type = "ImageResult"

\* C2: a call of AIGenerator whose submit succeeded and that has seen
\* Pending max_attempts times returns 408 "Timeout waiting for image
\* generation" without raising, after exactly max_attempts polls; and the
\* timeout is returned in no other case.
C2_TimeoutAfterBudget ==
    \A c \in Svc :
        /\ (task_id[c] # None /\ attempt[c] = max_attempts /\ pc[c] = "done") =>
              /\ returned[c] = [type |-> "text", status_code |-> 408,
                                content |-> <<"Timeout waiting for image generation">>]
              /\ raised[c] = NoException
              /\ Polls(c) = max_attempts
        /\ (returned[c].type = "text" /\ returned[c].status_code = 408) =>
              /\ attempt[c] = max_attempts
              /\ polled[c].status \in {PENDING, "(not polled)"}
        /\ attempt[c] <= max_attempts

C2_Witness ==
    \E c \in Svc :
        /\ returned[c].type = "text" /\ returned[c].status_code = 408
        /\ max_attempts = 3 /\ Polls(c) = 3

\* the pairs of section 4.3 of the specification
FixedPair(s) ==
    CASE s = ERROR -> [type |-> "text", status_code |-> 500,
                       content |-> <<"Image generation failed">>]
      [] s = TASK_NOT_FOUND -> [type |-> "text", status_code |-> 404,
                       content |-> <<"Task not found">>]
      [] s = REQUEST_MODERATED -> [type |-> "text", status_code |-> 400,
                       content |-> <<"Request was moderated due to content policy">>]
      [] s = CONTENT_MODERATED -> [type |-> "text", status_code |-> 400,
                       content |-> <<"Generated content was moderated due to content policy">>]

\* C3: the first poll of AIGenerator that answers Error, Task not found,
\* Request Moderated or Content Moderated ends the call: it has returned,
\* without raising, the fixed pair of that status, and no poll followed.
C3_TerminalFailurePairs ==
    \A c \in Svc :
        polled[c].status \in TerminalFailures =>
            /\ pc[c] = "done"
            /\ returned[c] = FixedPair(polled[c].status)
            /\ raised[c] = NoException
            /\ Polls(c) = attempt[c] + 1

C3_Witness ==
    \E c \in Svc :
        /\ polled[c].status = CONTENT_MODERATED /\ attempt[c] = 1
        /\ returned[c].status_code = 400

\* C4: in the route, a poll that answers a terminal failure status makes
\* the response carry the fixed pair of that status, and nothing is
\* downloaded, written to disk or written to the database.
C4_RouteTerminalFailurePairs ==
    \A c \in Route :
        polled[c].status \in TerminalFailures =>
            /\ pc[c] = "done"
            /\ returned[c] = FixedPair(polled[c].status)
            /\ Downloads(c) = 0 /\ FileWrites(c) = 0 /\ Persists(c) = 0

\* the responses of the four mapped failures and of the timeout
MappedResponses == {FixedPair(s) : s \in TerminalFailures} \cup
    {[type |-> "text", status_code |-> 408,
      content |-> <<"Timeout waiting for image generation">>]}

\* C5: a poll of AIGenerator that answers a status outside the six known
\* ones (or no status) ends the call at once with a 500 response that is
\* none of the mapped failure responses nor the timeout; nothing is
\* downloaded or uploaded.
C5_UnknownStatusFailsHard ==
    \A c \in Svc :
        polled[c].status \in UnknownStatuses =>
            /\ pc[c] = "done"
            /\ Polls(c) = attempt[c] + 1
            /\ Downloads(c) = 0 /\ Uploads(c) = 0
            /\ returned[c].type = "text" /\ returned[c].status_code = 500
            /\ returned[c] \notin MappedResponses

C5_Witness ==
    \E c \in Svc :
        /\ polled[c].status = None /\ attempt[c] = 1 /\ pc[c] = "done"
        /\ returned[c].status_code = 500

\* the failure responses that end a run without a Ready poll
EndsInFailure(c) ==
    \/ returned[c] \in MappedResponses
    \/ polled[c].status \in TerminalFailures

\* C6: in the service and in the route, a download, an upload, a file write
\* or a database write of a run is preceded by a Ready answer to a poll of
\* that run; a run that ended in the timeout or in a terminal failure
\* status has made none of them, and the stores hold nothing of it.
C6_SideEffectsOnlyAfterReady ==
    /\ \A c \in Calls :
        /\ (Downloads(c) + Uploads(c) + FileWrites(c) + Persists(c) > 0) =>
              /\ polled[c].status = READY
              /\ \E i \in DOMAIN log[c] :
                    /\ log[c][i] = "poll"
                    /\ \A j \in DOMAIN log[c] :
                          log[c][j] \in {"download", "upload", "file", "persist"} => i < j
        /\ EndsInFailure(c) =>
              Downloads(c) + Uploads(c) + FileWrites(c) + Persists(c) = 0
    /\ (objects # {} \/ files # {} \/ db # {}) =>
          \E c \in Calls : polled[c].status = READY

C6_Witness ==
    \E c \in Route :
        /\ FileWrites(c) = 1 /\ Downloads(c) = 1
        /\ attempt[c] = 1 /\ files # {}

\* C7: whenever a step of image generation (service or route) raised, the
\* call has returned the plain-text response 500 whose body is "Error
\* generating image: " followed by the message of that exception; a call
\* never ends otherwise than by returning a response.
C7_ExceptionsBecome500 ==
    \A c \in Calls :
        /\ raised[c] # NoException =>
              /\ pc[c] = "done"
              /\ returned[c] = [type |-> "text", status_code |-> 500,
                                content |-> <<"Error generating image: ">> \o raised[c]]
        /\ pc[c] = "done" => returned[c].type \in {"text", "ImageResult"}

C7_Witness ==
    \E c \in Calls :
        /\ raised[c] = <<"500", ": ", "Error uploading file">>
        /\ pc[c] = "done" /\ Downloads(c) = 1

\* C8: a completed call of AIGenerator.generate_image has returned either
\* a descriptor with id, prompt, model and url all set, or one plain-text
\* response with status 400, 404, 408 or 500; never 200 "Pending"; and a
\* call that has not completed has returned nothing.
C8_DescriptorOrTerminalError ==
    \A c \in Svc :
        /\ pc[c] = "done" =>
              \/ /\ returned[c].type = "ImageResult"
                 /\ returned[c].id # None /\ Len(returned[c].url) > 0
                 /\ returned[c].prompt = request[c].prompt
                 /\ returned[c].model = request[c].model
              \/ /\ returned[c].type = "text"
                 /\ returned[c].status_code \in {400, 404, 408, 500}
        /\ pc[c] # "done" => returned[c] = [type |-> "none"]

C8_Witness ==
    \E c \in Svc :
        /\ pc[c] = "done" /\ returned[c].type = "text"
        /\ returned[c].status_code = 404 /\ attempt[c] = 2

\* position of the first ev in a log, 0 when absent
First(seq, ev) ==
    IF \E i \in DOMAIN seq : seq[i] = ev
    THEN CHOOSE i \in DOMAIN seq : seq[i] = ev /\ \A j \in 1..(i - 1) : seq[j] # ev
    ELSE 0

\* C9: a descriptor returned by AIGenerator follows, in this order, the
\* download, the upload under <task_id>.<output_format> and the persistence
\* of a record with id = task_id; it is {id: task_id, prompt, model, url}.
C9_PersistBeforeDescriptor ==
    \A c \in Svc :
        returned[c].type = "ImageResult" =>
            /\ 0 < First(log[c], "download")
            /\ First(log[c], "download") < First(log[c], "upload")
            /\ First(log[c], "upload") < First(log[c], "persist")
            /\ \E o \in objects :
                  /\ o.Key = <<task_id[c], ".", request[c].output_format>>
                  /\ o.Metadata.media_type = "image"
            /\ \E row \in db : row.id = UUID(task_id[c])
            /\ returned[c].prompt = request[c].prompt
            /\ returned[c].model = request[c].model

\* C10: in AIGenerator a stage runs only if the stages before it succeeded:
\* no poll without a task id, no upload unless the download answered 200,
\* no descriptor unless the object was put; a call stopped at a stage has
\* returned a 500 response.
C10_StagesGated ==
    \A c \in Svc :
        /\ task_id[c] = None => Polls(c) = 0
        /\ (task_id[c] = None /\ pc[c] # "start") =>
              /\ pc[c] = "done" /\ returned[c].type = "text"
              /\ returned[c].status_code = 500
        /\ pc[c] \in {"upload", "head_bucket", "create_bucket", "put_object",
                      "head_object"} => download[c].status_code = 200
        /\ Uploads(c) > 0 => download[c].status_code = 200
        /\ (Downloads(c) = 1 /\ download[c].status_code # 200) =>
              /\ pc[c] = "done" /\ Uploads(c) = 0
              /\ returned[c].type = "text" /\ returned[c].status_code = 500
        /\ returned[c].type = "ImageResult" =>
              /\ Uploads(c) = 1
              /\ \E o \in objects : o.Key = unique_filename[c]
        /\ (pc[c] = "done" /\ polled[c].status = READY /\ Uploads(c) = 0) =>
              /\ returned[c].type = "text" /\ returned[c].status_code = 500

C10_Witness ==
    \E c \in Svc :
        /\ Downloads(c) = 1 /\ download[c].status_code = 404
        /\ pc[c] = "done" /\ attempt[c] = 1

\* ==================================================== schemas/ai_content.py
\* a member the JSON object does not have
Absent == "<absent>"

\* CodeBlockAttributes.language
Languages ==
    {"python", "javascript", "typescript", "java", "c", "cpp", "ruby", "go",
     "rust", "html", "css", "sql", "shell", "markdown", "json", "yaml", "xml"}

\* the marks without attributes
PlainMarks == {"bold", "italic", "underline", "strike", "subscript"}

\* AllMarks; a mark is [type, href], href being attrs.href of a link
AllMarks(m) ==
    \/ m.type \in PlainMarks
    \/ m.type = "highlight"
    \/ m.type = "link" /\ m.href # Absent

\* TextNode
TextNode(n) ==
    /\ n.type = "text"
    /\ n.text # Absent
    /\ \A i \in DOMAIN n.marks : AllMarks(n.marks[i])

\* mutant: language: str
CodeBlockAttributes_anyString(attrs) == attrs.language # Absent

\* CodeBlockAttributes
CodeBlockAttributes(attrs) == attrs.language \in Languages

\* CodeBlockNode
CodeBlockNode(n) ==
    /\ n.type = "codeBlock"
    /\ CodeBlockAttributes(n.attrs)
    /\ \A i \in DOMAIN n.content : TextNode(n.content[i])

\* HeadingAttributes
HeadingAttributes(attrs) == attrs.textAlign = "left" /\ attrs.level \in 1..6

\* ParagraphAttributes
ParagraphAttributes(attrs) == attrs.textAlign = "left"

\* ParagraphNode
ParagraphNode(n) ==
    /\ n.type = "paragraph"
    /\ ParagraphAttributes(n.attrs)
    /\ \A i \in DOMAIN n.content : TextNode(n.content[i])

\* HeadingNode
HeadingNode(n) ==
    /\ n.type = "heading"
    /\ HeadingAttributes(n.attrs)
    /\ \A i \in DOMAIN n.content : TextNode(n.content[i])

\* ListItemNode
ListItemNode(n) ==
    /\ n.type = "listItem"
    /\ \A i \in DOMAIN n.content : ParagraphNode(n.content[i])

\* OrderedListNode
OrderedListNode(n) ==
    /\ n.type = "orderedList"
    /\ \A i \in DOMAIN n.content : ListItemNode(n.content[i])

\* BulletListNode
BulletListNode(n) ==
    /\ n.type = "bulletList"
    /\ \A i \in DOMAIN n.content : ListItemNode(n.content[i])

\* TableCellNode
TableCellNode(n) ==
    /\ n.type = "tableCell"
    /\ \A i \in DOMAIN n.content : ParagraphNode(n.content[i])

\* TableRowNode
TableRowNode(n) ==
    /\ n.type = "tableRow"
    /\ \A i \in DOMAIN n.content : TableCellNode(n.content[i])

\* TableNode
TableNode(n) ==
    /\ n.type = "table"
    /\ \A i \in DOMAIN n.content : TableRowNode(n.content[i])

\* PostContent: the document validates
PostContent(doc) ==
    /\ doc.type = "doc"
    /\ \A i \in DOMAIN doc.content :
          \/ HeadingNode(doc.content[i])
          \/ ParagraphNode(doc.content[i])
          \/ CodeBlockNode(doc.content[i])
          \/ BulletListNode(doc.content[i])
          \/ OrderedListNode(doc.content[i])
          \/ TableNode(doc.content[i])

\* ---------------------------------------------------- the JSON validated
\* attrs of a JSON node; a member the node lacks is Absent (level: 0)
Attrs(textAlign, level, language) ==
    [textAlign |-> textAlign, level |-> level, language |-> language]

NoAttrs == Attrs(Absent, 0, Absent)

Node(type, attrs, content) == [type |-> type, attrs |-> attrs, content |-> content]

Text(type, marks) == [type |-> type, text |-> "lorem", marks |-> marks]

\* the text content a block is given
TextContents ==
    {<<>>,
     <<Text("text", <<>>)>>,
     <<Text("text", <<[type |-> "bold", href |-> Absent]>>)>>,
     <<Text("text", <<[type |-> "link", href |-> Absent]>>)>>,
     <<Text("span", <<>>)>>}

\* the blocks a document is given: well-formed ones and ones with one flaw
SchemaBlocks ==
    {Node("heading", Attrs(a, l, Absent), t) :
        a \in {"left", "center"}, l \in {1, 6, 7},
        t \in {<<>>, <<Text("text", <<>>)>>}}
    \cup {Node("paragraph", Attrs(a, 0, Absent), t) :
        a \in {"left", Absent}, t \in TextContents}
    \cup {Node("codeBlock", Attrs(Absent, 0, lang), t) :
        lang \in {"python", "xml", "brainfuck", "Python", Absent},
        t \in {<<>>, <<Text("text", <<>>)>>}}
    \cup {Node(ty, NoAttrs,
               <<Node("listItem", NoAttrs,
                      <<Node("paragraph", Attrs("left", 0, Absent), <<>>)>>)>>) :
        ty \in {"bulletList", "orderedList", "taskList"}}
    \cup {Node("table", NoAttrs,
               <<Node("tableRow", NoAttrs, <<Node(cell, NoAttrs, <<>>)>>)>>) :
        cell \in {"tableCell", "tableHeader"}}

\* most blocks of a validated document
MaxBlocks == 2

\* the documents handed to the validation
SchemaDocs ==
    {[type |-> ty, content |-> c] :
        ty \in {"doc"},
        c \in UNION {[1..n -> SchemaBlocks] : n \in 0..MaxBlocks}}
    \cup {[type |-> "document", content |-> <<>>]}

\* pydantic validates the document against PostContent
model_validate ==
    /\ sc_result = "(not validated)"
    /\ sc_result' = IF PostContent(sc_doc) THEN "PostContent" ELSE "ValidationError"
    /\ UNCHANGED <<sc_doc, nonSchema>>

InitSchema ==
    /\ sc_doc \in SchemaDocs
    /\ sc_result = "(not validated)"
    /\ NoStream
    /\ NoCalls
    /\ NoUploads
    /\ bucket = FALSE
    /\ EmptyStores

NextSchema == model_validate

SpecSchema == InitSchema /\ [][NextSchema]_vars

\* a code block of the document
CodeBlocks(doc) == {i \in DOMAIN doc.content : doc.content[i].type = "codeBlock"}

\* C16: a document holding a code block whose language is not one of the
\* seventeen enumerated languages is rejected by the validation.
C16_UnlistedLanguageRejected ==
    (/\ sc_result # "(not validated)"
     /\ \E i \in CodeBlocks(sc_doc) :
           sc_doc.content[i].attrs.language \notin
              {"python", "javascript", "typescript", "java", "c", "cpp",
               "ruby", "go", "rust", "html", "css", "sql", "shell",
               "markdown", "json", "yaml", "xml"})
    => sc_result = "ValidationError"

\* a document whose only flaw is the language of its code block was rejected
C16_Witness ==
    /\ sc_result = "ValidationError"
    /\ Len(sc_doc.content) = 1
    /\ sc_doc = [type |-> "doc",
                 content |-> <<Node("codeBlock", Attrs(Absent, 0, "brainfuck"),
                                    <<Text("text", <<>>)>>)>>]

\* ================================== AIGenerator._stream_content (generator)
\* most events one stream delivers
MaxEvents == 4

\* most blocks of a drafted document
MaxNodes == 2

\* the number of fragments of a prompt template
TemplateLen == 4

\* the blocks the language model drafts
StreamBlocks ==
    {Node("heading", Attrs("left", 1, Absent), <<Text("text", <<>>)>>),
     Node("paragraph", Attrs("left", 0, Absent), <<Text("text", <<>>)>>),
     Node("codeBlock", Attrs(Absent, 0, "python"), <<Text("text", <<>>)>>)}

\* response_format=PostContent: the documents the completion may spell out
StreamDocs ==
    {d \in {[type |-> "doc", content |-> c] :
               c \in UNION {[1..n -> StreamBlocks] : n \in 0..MaxNodes}} :
        PostContent(d)}

\* event.parsed when the content received so far spells the first n blocks
Snapshot(doc, n) == [type |-> "doc", content |-> SubSeq(doc.content, 1, n)]

\* an event of the stream; parsed is <<>> for None, else <<the snapshot>>
Event(type, parsed, error) == [type |-> type, parsed |-> parsed, error |-> error]

\* str(event.error)
ErrorMessages == {"upstream overloaded"}

\* a block of which only the type has arrived
Truncated(node) == Node(node.type, NoAttrs, <<>>)

\* event.parsed when the content received so far spells the first n blocks
\* and the beginning of the next one
PartialSnapshot(doc, n) ==
    [type |-> "doc",
     content |-> Append(SubSeq(doc.content, 1, n), Truncated(doc.content[n + 1]))]

\* the events the provider may deliver next, having sent acc blocks
NextEvents(doc, acc) ==
    {Event("content.delta", <<Snapshot(doc, n)>>, None) :
        n \in acc..Len(doc.content)}
    \cup {Event("content.delta", <<PartialSnapshot(doc, n)>>, None) :
        n \in acc..(Len(doc.content) - 1)}
    \cup {Event("content.delta", <<>>, None)}
    \cup {Event("content.done", <<>>, None)}
    \cup {Event("error", <<>>, m) : m \in ErrorMessages}
    \cup {Event("chunk", <<>>, None)}

\* the blocks the provider has sent once ev is delivered
Received(ev, acc) ==
    IF Len(ev.parsed) > 0
    THEN Cardinality({i \in DOMAIN ev.parsed[1].content :
                        ev.parsed[1].content[i] \in StreamBlocks})
    ELSE acc

\* json.dumps(obj): the text that parses back to obj
JsonDumps(obj) == [json |-> obj]

\* json.dumps(obj) + "\n"
Line(obj) == <<JsonDumps(obj), "\n">>

\* mutant: only the newest block of the snapshot is serialised
Yielded_lastNode(ev) ==
    IF ev.type = "content.delta"
    THEN IF Len(ev.parsed) > 0
         THEN IF Len(ev.parsed[1].content) > 0
              THEN <<Line(ev.parsed[1].content[Len(ev.parsed[1].content)])>>
              ELSE <<>>
         ELSE <<>>
    ELSE IF ev.type = "error" THEN <<Line([error |-> ev.error])>>
    ELSE IF ev.type = "content.done" THEN <<Line([done |-> TRUE])>>
    ELSE <<>>

\* mutant: the snapshot is cut to its first block before it is serialised
Yielded_headOnly(ev) ==
    IF ev.type = "content.delta"
    THEN IF Len(ev.parsed) > 0
         THEN <<Line([type |-> "doc",
                      content |-> IF Len(ev.parsed[1].content) > 0
                                  THEN <<ev.parsed[1].content[1]>>
                                  ELSE <<>>])>>
         ELSE <<>>
    ELSE IF ev.type = "error" THEN <<Line([error |-> ev.error])>>
    ELSE IF ev.type = "content.done" THEN <<Line([done |-> TRUE])>>
    ELSE <<>>

\* mutant: a delta without a parsed snapshot is reported as an error
Yielded_errorOnNone(ev) ==
    IF ev.type = "content.delta"
    THEN IF Len(ev.parsed) > 0 THEN <<Line(ev.parsed[1])>>
         ELSE <<Line([error |-> "no snapshot"])>>
    ELSE IF ev.type = "error" THEN <<Line([error |-> ev.error])>>
    ELSE IF ev.type = "content.done" THEN <<Line([done |-> TRUE])>>
    ELSE <<>>

\* the body of `for event in stream`: the lines yielded for one event
Yielded(ev) ==
    IF ev.type = "content.delta"
    THEN IF Len(ev.parsed) > 0 THEN <<Line(ev.parsed[1])>> ELSE <<>>
    ELSE IF ev.type = "error" THEN <<Line([error |-> ev.error])>>
    ELSE IF ev.type = "content.done" THEN <<Line([done |-> TRUE])>>
    ELSE <<>>

\* str.replace(old, new) on a text held as fragments: every occurrence of
\* `old` is replaced, every other fragment is kept
replace(text, old, new) ==
    [i \in DOMAIN text |-> IF text[i] = old THEN new ELSE text[i]]

\* the values the `tone` parameter admits
Tones == {"article", "tutorial", "academic", "casual"}

\* the placeholders the template of ai_prompts/content_draft.json carries
Placeholders == {"{{TONE}}", "{{FORMAT}}", "{{STYLE}}"}

\* the "content" of ai_prompts/content_draft.json: fixed text around the
\* three placeholders
content_draft ==
    <<"(instruction)", "{{TONE}}", "{{FORMAT}}", "{{STYLE}}">>

\* the system prompt: the template with the tone put in
Prompt(template, tone) == replace(template, "{{TONE}}", tone)

\* the `messages` argument of the streaming call
Messages(template, req) ==
    << [role |-> "system", content |-> Prompt(template, req.tone)],
       [role |-> "user", content |-> <<req.prompt>>] >>

\* the prompt file is read and the streaming call is opened; either may raise
stream_open ==
    /\ st_pc = "start"
    /\ \/ /\ st_pc' = "raised"
          /\ UNCHANGED st_messages
       \/ /\ st_messages' = Messages(st_template, st_request)
          /\ st_pc' \in {"streaming", "raised"}
    /\ UNCHANGED <<st_doc, st_acc, st_events, st_lines, st_request,
                   st_template>>
    /\ UNCHANGED nonStream

\* mutant: the line of the event is put before the lines already out
stream_event_prepend ==
    /\ st_pc = "streaming"
    /\ Len(st_events) < MaxEvents
    /\ \E ev \in NextEvents(st_doc, st_acc) :
          /\ st_events' = Append(st_events, ev)
          /\ st_acc' = Received(ev, st_acc)
          /\ st_lines' = Yielded(ev) \o st_lines
    /\ UNCHANGED <<st_pc, st_doc, st_request, st_template, st_messages>>
    /\ UNCHANGED nonStream

\* one turn of `for event in stream`
stream_event ==
    /\ st_pc = "streaming"
    /\ Len(st_events) < MaxEvents
    /\ \E ev \in NextEvents(st_doc, st_acc) :
          /\ st_events' = Append(st_events, ev)
          /\ st_acc' = Received(ev, st_acc)
          /\ st_lines' = st_lines \o Yielded(ev)
    /\ UNCHANGED <<st_pc, st_doc, st_request, st_template, st_messages>>
    /\ UNCHANGED nonStream

\* next(stream) raises: nothing in the generator catches it
stream_raise ==
    /\ st_pc = "streaming"
    /\ st_pc' = "raised"
    /\ UNCHANGED <<st_doc, st_acc, st_events, st_lines, st_request,
                   st_template, st_messages>>
    /\ UNCHANGED nonStream

\* the provider's iterator is exhausted: the generator returns
stream_stop ==
    /\ st_pc = "streaming"
    /\ st_pc' = "ended"
    /\ UNCHANGED <<st_doc, st_acc, st_events, st_lines, st_request,
                   st_template, st_messages>>
    /\ UNCHANGED nonStream

InitStream ==
    /\ st_pc = "start"
    /\ st_doc \in StreamDocs
    /\ st_acc = 0
    /\ st_events = <<>>
    /\ st_lines = <<>>
    /\ st_request = [tone |-> "article", prompt |-> "(prompt 1)"]
    /\ st_template = content_draft
    /\ st_messages = <<>>
    /\ NoSchema
    /\ NoCalls
    /\ NoUploads
    /\ bucket = FALSE
    /\ EmptyStores

NextStream ==
    \/ stream_open
    \/ stream_event
    \/ stream_raise
    \/ stream_stop

SpecStream == InitStream /\ [][NextStream]_vars

\* the requests a client can make: a tone and a prompt
DraftRequests == [tone : Tones, prompt : {"(prompt 1)", "(prompt 2)"}]

\* the ways the fixed text and the three placeholders can be laid out in the
\* template: TemplateLen fragments, each placeholder at least once
Templates ==
    {t \in [1 .. TemplateLen -> Placeholders \cup {"(instruction)"}] :
        \A p \in Placeholders : \E i \in 1 .. TemplateLen : t[i] = p}

\* the opening of a content-draft stream, for every request and template
InitPrompt ==
    /\ st_pc = "start"
    /\ st_doc = <<>>
    /\ st_acc = 0
    /\ st_events = <<>>
    /\ st_lines = <<>>
    /\ st_request \in DraftRequests
    /\ st_template \in Templates
    /\ st_messages = <<>>
    /\ NoSchema
    /\ NoCalls
    /\ NoUploads
    /\ bucket = FALSE
    /\ EmptyStores

NextPrompt == stream_open

SpecPrompt == InitPrompt /\ [][NextPrompt]_vars

\* ----------------------------------------------------- claims C11 .. C15
\* what a line of the wire protocol is
LineKind(line) ==
    IF "done" \in DOMAIN line[1].json THEN "done"
    ELSE IF "error" \in DOMAIN line[1].json THEN "error"
    ELSE "content"

\* the stream is over for the client
StreamOver == st_pc \in {"ended", "raised"}

LinesOfKind(k) == {i \in DOMAIN st_lines : LineKind(st_lines[i]) = k}

EventsOfType(t) == {i \in DOMAIN st_events : st_events[i].type = t}

\* C11: a stream that is over has a done line or an error line as its last
\* line, and an error line when an exception ended it.
C11_EndsWithTerminalLine ==
    StreamOver =>
        /\ Len(st_lines) > 0
        /\ LineKind(st_lines[Len(st_lines)]) \in {"done", "error"}
        /\ st_pc = "raised" => LineKind(st_lines[Len(st_lines)]) = "error"

\* C12: an error event gives exactly one error line and that line is the
\* last line of the stream.
C12_NothingAfterErrorLine ==
    /\ Cardinality(LinesOfKind("error")) = Cardinality(EventsOfType("error"))
    /\ \A i \in LinesOfKind("error") : i = Len(st_lines)

\* C13: the done event gives exactly one done line, at most one done line is
\* emitted in a stream, and no content or error line follows it.
C13_NothingAfterDoneLine ==
    /\ EventsOfType("content.done") # {} => LinesOfKind("done") # {}
    /\ Cardinality(LinesOfKind("done")) <= 1
    /\ \A i \in LinesOfKind("done") : i = Len(st_lines)

HeadingBlock == Node("heading", Attrs("left", 1, Absent), <<Text("text", <<>>)>>)

ParagraphBlock == Node("paragraph", Attrs("left", 0, Absent), <<Text("text", <<>>)>>)

IsContentLine(line) == LineKind(line) = "content"

\* a delta whose accumulated content could be parsed
IsParsedDelta(ev) == ev.type = "content.delta" /\ Len(ev.parsed) > 0

\* the content lines emitted so far, in order
ContentLines == SelectSeq(st_lines, IsContentLine)

\* the deltas consumed so far that carried a snapshot, in order
ParsedDeltas == SelectSeq(st_events, IsParsedDelta)

\* the stream was: heading delta, paragraph delta, Done
HeadingParagraphDone ==
    /\ st_pc = "ended"
    /\ st_doc.content = <<HeadingBlock, ParagraphBlock>>
    /\ st_events = <<Event("content.delta", <<Snapshot(st_doc, 1)>>, None),
                     Event("content.delta", <<Snapshot(st_doc, 2)>>, None),
                     Event("content.done", <<>>, None)>>

\* C14 as stated: each delta line carries only the new node, so heading
\* delta, paragraph delta, Done gives the heading node, the paragraph node
\* and the done line.
C14_LinesCarryNewNodes ==
    HeadingParagraphDone =>
        st_lines = <<Line(HeadingBlock), Line(ParagraphBlock), Line([done |-> TRUE])>>

\* C14 amended: each delta line carries the snapshot of the document
\* accumulated so far, so heading delta, paragraph delta, Done gives the
\* document with the heading, the document with heading and paragraph, and
\* the done line.
C14_LinesCarrySnapshots ==
    /\ Len(ContentLines) = Len(ParsedDeltas)
    /\ \A i \in DOMAIN ContentLines :
          ContentLines[i] = Line(ParsedDeltas[i].parsed[1])
    /\ HeadingParagraphDone =>
          st_lines = <<Line([type |-> "doc", content |-> <<HeadingBlock>>]),
                       Line([type |-> "doc",
                             content |-> <<HeadingBlock, ParagraphBlock>>]),
                       Line([done |-> TRUE])>>

\* the three-line stream has been produced
C14_Witness ==
    /\ HeadingParagraphDone
    /\ Len(st_lines) = 3
    /\ st_lines[2][1].json.content = <<HeadingBlock, ParagraphBlock>>

\* json.loads of the last content line: the tree the client ends up with
Reconstructed ==
    IF Len(ContentLines) > 0
    THEN ContentLines[Len(ContentLines)][1].json
    ELSE [type |-> "doc", content |-> <<>>]

\* the events were snapshots of growing prefixes up to the whole document,
\* followed by Done
SnapshotsThenDone ==
    /\ st_pc = "ended"
    /\ Len(st_events) >= 2
    /\ \A i \in 1..(Len(st_events) - 1) : IsParsedDelta(st_events[i])
    /\ st_events[Len(st_events) - 1].parsed[1] = st_doc
    /\ st_events[Len(st_events)].type = "content.done"

ALLOWED_EXTENSIONS == {"png", "jpg", "jpeg", "gif", "mp4", "webp"}

\* the uploaded files: a name is <<stem, ".", ext>>, or <<stem>> without a
\* dot; the content is the sequence of chunks file.file.read() gives
UploadFiles ==
    [filename : {<<"cat", ".", "png">>, <<"cat", ".", "PNG">>,
                 <<"run", ".", "exe">>, <<"README">>},
     content : {<<"A1", "A2">>, <<"B1">>}]

\* LocalImageUploader.is_valid_file
is_valid_file(filename) ==
    /\ Len(filename) = 3
    /\ Lower(filename[3]) \in ALLOWED_EXTENSIONS

\* LocalImageUploader.generate_unique_filename
local_generate_unique_filename(image_id, filename) ==
    <<UUIDStr(image_id), ".", Lower(filename[3])>>

\* whether the upload directory holds a file of that name
Exists(fs, name) == \E f \in fs : f.name = name

\* open(file_path, "wb") and the chunks written: the file is replaced
Written(fs, name, chunks) ==
    {f \in fs : f.name # name} \cup {[name |-> name, content |-> chunks]}

\* file_path.unlink()
Unlinked(fs, name) == {f \in fs : f.name # name}

\* HTTPException(status_code=500, detail=f"Error uploading file: {str(e)}")
UploadError(msg) ==
    [type |-> "HTTPException", status_code |-> "500",
     detail |-> <<"Error uploading file: ">> \o msg]

\* an exception the except clause itself raised
RawError(name) == [type |-> name, status_code |-> "", detail |-> <<>>]

\* the Image row upload_image adds
ImageRow(u) ==
    [id |-> UUID(up_meta[u]), filename |-> up_path[u],
     url |-> <<"MINIO_BASE_URL", "/uploads/">> \o up_path[u],
     provider |-> "local"]

\* the UploadResult upload_image returns
UploadResult(u) ==
    [type |-> "UploadResult",
     url |-> <<"MINIO_BASE_URL", "/uploads/">> \o up_path[u],
     provider_id |-> up_path[u], provider |-> "local"]

\* mutant: the except clause leaves the file where it is
Except_keepFile(u, path, msg, fs, lg) ==
    /\ files' = fs
    /\ up_log' = [up_log EXCEPT ![u] = lg]
    /\ up_raised' = [up_raised EXCEPT ![u] = UploadError(msg)]
    /\ up_pc' = [up_pc EXCEPT ![u] = "done"]
    /\ up_path' = [up_path EXCEPT ![u] = path]
    /\ UNCHANGED up_returned

\* the except clause of upload_image, entered with str(e) = msg, file_path =
\* path (<<>> for None), the directory fs and the journal lg: the file is
\* removed if it exists, and removing it may itself raise
Except(u, path, msg, fs, lg) ==
    /\ IF Len(path) > 0 /\ Exists(fs, path)
       THEN \/ /\ files' = Unlinked(fs, path)
               /\ up_log' = [up_log EXCEPT ![u] = lg \o <<"unlink">>]
               /\ up_raised' = [up_raised EXCEPT ![u] = UploadError(msg)]
            \/ /\ files' = fs
               /\ up_log' = [up_log EXCEPT ![u] = lg \o <<"unlink failed">>]
               /\ up_raised' = [up_raised EXCEPT ![u] = RawError("PermissionError")]
       ELSE /\ files' = fs
            /\ up_log' = [up_log EXCEPT ![u] = lg]
            /\ up_raised' = [up_raised EXCEPT ![u] = UploadError(msg)]
    /\ up_pc' = [up_pc EXCEPT ![u] = "done"]
    /\ up_path' = [up_path EXCEPT ![u] = path]
    /\ UNCHANGED up_returned

\* upload_image up to `await session.commit()`: the checks, save_file and
\* session.add run without suspension
upload_image(u) ==
    /\ up_pc[u] = "start"
    /\ up_after' = [up_after EXCEPT ![u] = {v \in UploadCalls : up_pc[v] = "done"}]
    /\ LET file == up_file[u]
           name == local_generate_unique_filename(UUID(up_meta[u]), file.filename)
       IN  IF ~is_valid_file(file.filename)
           THEN Except(u, <<>>, HTTPExceptionStr("400", <<"File type not allowed">>),
                       files, <<>>)
           ELSE IF UUID(up_meta[u]) = None
           THEN Except(u, <<>>, ValueErrorStr, files, <<>>)
           ELSE \/ \* open() raises
                   Except(u, name, <<"PermissionError">>, files, <<"open failed">>)
                \/ \* a write raises after some chunks
                   \E n \in 0..(Len(file.content) - 1) :
                      Except(u, name, <<"OSError">>,
                             Written(files, name, SubSeq(file.content, 1, n)),
                             <<"open", "write failed">>)
                \/ /\ files' = Written(files, name, file.content)
                   /\ up_path' = [up_path EXCEPT ![u] = name]
                   /\ up_log' = [up_log EXCEPT ![u] = <<"open", "write", "add">>]
                   /\ up_pc' = [up_pc EXCEPT ![u] = "commit"]
                   /\ UNCHANGED <<up_returned, up_raised>>
    /\ UNCHANGED <<up_file, up_meta, db, bucket, objects>>
    /\ UNCHANGED <<streamVars, schemaVars, callVars>>

\* await session.commit(): the INSERT of the row, refused when a row with
\* that primary key is stored
upload_commit(u) ==
    /\ up_pc[u] = "commit"
    /\ \/ /\ \E r \in db : r.id = ImageRow(u).id
          /\ Except(u, up_path[u], <<"IntegrityError">>, files,
                    up_log[u] \o <<"commit refused">>)
          /\ UNCHANGED db
       \/ /\ Except(u, up_path[u], <<"OperationalError">>, files,
                    up_log[u] \o <<"commit failed">>)
          /\ UNCHANGED db
       \/ /\ ~ \E r \in db : r.id = ImageRow(u).id
          /\ db' = db \cup {ImageRow(u)}
          /\ up_log' = [up_log EXCEPT ![u] = @ \o <<"commit">>]
          /\ up_pc' = [up_pc EXCEPT ![u] = "refresh"]
          /\ UNCHANGED <<files, up_path, up_returned, up_raised>>
    /\ UNCHANGED <<up_file, up_meta, up_after, bucket, objects>>
    /\ UNCHANGED <<streamVars, schemaVars, callVars>>

\* await session.refresh(db_image), then the UploadResult is returned
upload_refresh(u) ==
    /\ up_pc[u] = "refresh"
    /\ \/ Except(u, up_path[u], <<"OperationalError">>, files,
                 up_log[u] \o <<"refresh failed">>)
       \/ /\ up_returned' = [up_returned EXCEPT ![u] = UploadResult(u)]
          /\ up_log' = [up_log EXCEPT ![u] = @ \o <<"refresh">>]
          /\ up_pc' = [up_pc EXCEPT ![u] = "done"]
          /\ UNCHANGED <<files, up_path, up_raised>>
    /\ UNCHANGED <<up_file, up_meta, up_after, db, bucket, objects>>
    /\ UNCHANGED <<streamVars, schemaVars, callVars>>

InitLocal ==
    /\ up_pc = [u \in UploadCalls |-> "start"]
    /\ up_file \in [UploadCalls -> UploadFiles]
    /\ up_meta \in [UploadCalls -> TaskIds]
    /\ FreshUploads
    /\ NoStream
    /\ NoSchema
    /\ NoCalls
    /\ bucket = FALSE
    /\ EmptyStores

NextLocal ==
    \E u \in UploadCalls :
        \/ upload_image(u)
        \/ upload_commit(u)
        \/ upload_refresh(u)

SpecLocal == InitLocal /\ [][NextLocal]_vars

\* ----------------------------------------------------- claims C17 .. C19
Has(seq, ev) == \E i \in DOMAIN seq : seq[i] = ev

\* call u has raised
UploadFailed(u) == up_pc[u] = "done" /\ up_raised[u] # NoRaise

\* what the environment did to call u: a failing disk or database
Faults == {"open failed", "write failed", "commit failed", "refresh failed",
           "unlink failed"}

NoFault(u) == \A i \in DOMAIN up_log[u] : up_log[u][i] \notin Faults

C18_CleanupFailureNotReraised ==
    \A u \in UploadCalls :
        (up_pc[u] = "done" /\ Has(up_log[u], "unlink failed"))
        => /\ up_raised[u].type = "HTTPException"
           /\ up_raised[u].status_code = "500"

\* the file name two uploads share: same id, same extension
SameTarget(u, v) ==
    /\ is_valid_file(up_file[u].filename)
    /\ is_valid_file(up_file[v].filename)
    /\ UUID(up_meta[u]) # None
    /\ UUID(up_meta[u]) = UUID(up_meta[v])
    /\ Lower(up_file[u].filename[3]) = Lower(up_file[v].filename[3])

\* C19: two uploads with the same id and extension, one after the other and
\* with disk and database working, leave exactly one file under that name,
\* holding the bytes of the second upload.
C19_SecondUploadOverwrites ==
    \A u, v \in UploadCalls :
        (/\ u # v
         /\ up_pc[u] = "done"
         /\ up_pc[v] = "done"
         /\ u \in up_after[v]
         /\ SameTarget(u, v)
         /\ NoFault(u)
         /\ NoFault(v))
        => {f \in files : f.name = local_generate_unique_filename(
                                      UUID(up_meta[v]), up_file[v].filename)}
           = {[name |-> local_generate_unique_filename(
                            UUID(up_meta[v]), up_file[v].filename),
               content |-> up_file[v].content]}

\* ================================ two concurrent calls of generate_image
\* the polling budget of the two racing calls
RaceAttempts == 1

InitRace ==
    /\ max_attempts = RaceAttempts
    /\ kind = [c \in Calls |-> "svc"]
    /\ request = [c \in Calls |-> CHOOSE r \in Requests : r.output_format = "png"]
    /\ FreshCalls
    /\ bucket = FALSE
    /\ EmptyStores
    /\ NoStream
    /\ NoSchema
    /\ NoUploads

NextRace ==
    \E c \in Calls :
        \/ start_image_generation(c)
        \/ poll_generation_status(c)
        \/ check_generation_status(c)
        \/ sleep(c)
        \/ download_generated_image(c)
        \/ upload_to_s3(c)
        \/ ensure_bucket_exists(c)
        \/ create_bucket(c)
        \/ put_object(c)
        \/ handle_ready_status(c)

SpecRace == InitRace /\ [][NextRace]_vars

\* C20: when two callers race to create the missing bucket, the create that
\* finds the bucket already there counts as success: the caller's upload
\* does not fail.
C20_CreateRaceTolerated ==
    \A c \in Calls :
        Has(log[c], "BucketAlreadyOwnedByYou") => raised[c] = NoException

\* ----------------------------------------------------- claims C22 .. C24
\* the Pending answers call c has observed
PendingSeen(c) == Count(log[c], PENDING)

\* the answers call c has observed
Answers(c) == Cardinality({i \in DOMAIN log[c] : log[c][i] \in PollStatuses})

\* C23 as stated: in every state the counter equals the number of Pending
\* answers observed and the number of interval sleeps, and stays within the
\* budget, as does the number of polls.
C23_AttemptIsPendingSeen ==
    \A c \in Calls :
        kind[c] = "svc" =>
            /\ attempt[c] = PendingSeen(c)
            /\ attempt[c] = Sleeps(c)
            /\ attempt[c] <= max_attempts
            /\ Polls(c) <= max_attempts

\* C23 amended: the counter is the number of interval sleeps completed; the
\* number of Pending answers observed equals it, except while the sleep that
\* follows the latest Pending answer is still running, when it is one more.
\* The counter never exceeds the budget, nor does the number of polls, and
\* with a budget of 0 no poll is issued and the loop answers the timeout.
C23_AttemptCountsPending ==
    \A c \in Calls :
        kind[c] = "svc" =>
            /\ attempt[c] = Sleeps(c)
            /\ PendingSeen(c) = attempt[c] + (IF pc[c] = "sleep" THEN 1 ELSE 0)
            /\ attempt[c] <= max_attempts
            /\ Polls(c) <= max_attempts
            /\ max_attempts = 0 =>
                  /\ Polls(c) = 0
                  /\ (pc[c] = "done" /\ raised[c] = NoException)
                        => returned[c] = TimeoutResponse

\* the budget was spent on Pending answers
C23_Witness ==
    \E c \in Calls :
        /\ kind[c] = "svc"
        /\ max_attempts >= 2
        /\ attempt[c] = max_attempts
        /\ PendingSeen(c) = max_attempts
        /\ Sleeps(c) = max_attempts
        /\ Polls(c) = max_attempts
        /\ returned[c] = TimeoutResponse

\* C24: polls are strictly sequential: at most one poll is unanswered, and
\* a poll after the first one directly follows a completed sleep, which
\* follows the Pending answer to the poll before.
C24_PollsSequential ==
    \A c \in Calls :
        kind[c] = "svc" =>
            /\ Polls(c) - Answers(c) \in {0, 1}
            /\ (Polls(c) - Answers(c) = 1) =>
                  \/ pc[c] = "poll"
                  \/ raised[c] = TransportError
            /\ \A i \in DOMAIN log[c] :
                  (log[c][i] = "poll" /\ \E j \in 1..(i - 1) : log[c][j] = "poll")
                  => /\ i > 3
                     /\ log[c][i - 1] = "sleep"
                     /\ log[c][i - 2] = PENDING
                     /\ log[c][i - 3] = "poll"

\* a second poll was issued after Pending and one sleep
C24_Witness ==
    \E c \in Calls :
        /\ kind[c] = "svc"
        /\ Polls(c) = 2
        /\ pc[c] = "poll"
        /\ Sleeps(c) = 1

\* the storage requests of call c that failed on their own
StorageFaults == {"head_bucket failed", "create_bucket failed",
                  "put_object failed", "head_object failed"}

IsStatus(e) == e \in PollStatuses

\* the answers the image provider gave call c, in order
Statuses(c) == SelectSeq(log[c], IsStatus)

\* the provider served call c to the end (the asset was downloaded) and no
\* storage request of c failed on its own
Served(c) ==
    /\ pc[c] = "done"
    /\ download[c].status_code = 200
    /\ \A i \in DOMAIN log[c] : log[c][i] \notin StorageFaults

\* C22: two concurrent calls do not interact: calls that got the same
\* answers from the provider end with the same counter, the same number of
\* polls and the same result, as each would when run alone.
C22_CallsDoNotInteract ==
    \A c, d \in Calls :
        (/\ Served(c)
         /\ Served(d)
         /\ request[c] = request[d]
         /\ task_id[c] = task_id[d]
         /\ Statuses(c) = Statuses(d)
         /\ download[c] = download[d])
        => /\ attempt[c] = attempt[d]
           /\ Polls(c) = Polls(d)
           /\ returned[c] = returned[d]

\* ----------------------------------------------------- claims C25, C26
\* the line that belongs to an event, if it has one
IsLineOf(line, ev) ==
    \/ /\ ev.type = "content.delta"
       /\ Len(ev.parsed) > 0
       /\ LineKind(line) = "content"
       /\ line[1].json = ev.parsed[1]
    \/ /\ ev.type = "error"
       /\ LineKind(line) = "error"
    \/ /\ ev.type = "content.done"
       /\ LineKind(line) = "done"

\* C25: lines keep the order of the events and are not buffered: when an
\* event is consumed the lines already out stay as they are, at most one
\* line is added, and the added line is the line of that event; no line
\* appears without an event.
C25_LinesInEventOrder ==
    [][/\ st_events' # st_events =>
             /\ Len(st_events') = Len(st_events) + 1
             /\ Len(st_lines') \in {Len(st_lines), Len(st_lines) + 1}
             /\ SubSeq(st_lines', 1, Len(st_lines)) = st_lines
             /\ Len(st_lines') = Len(st_lines) + 1 =>
                   IsLineOf(st_lines'[Len(st_lines')], st_events'[Len(st_events')])
       /\ st_events' = st_events => st_lines' = st_lines]_vars

\* a content line, an event without a line, and the done line, in order
C25_Witness ==
    /\ Len(st_events) = 3
    /\ IsParsedDelta(st_events[1])
    /\ st_events[2].type = "chunk"
    /\ st_events[3].type = "content.done"
    /\ Len(st_lines) = 2
    /\ LineKind(st_lines[1]) = "content"
    /\ LineKind(st_lines[2]) = "done"

\* a block of which some members have not arrived yet: what has arrived is
\* valid
PartialBlock(n) ==
    /\ n.type \in {"heading", "paragraph", "codeBlock", "bulletList",
                   "orderedList", "table"}
    /\ n.attrs.textAlign \in {Absent, "left"}
    /\ n.attrs.level \in 0..6
    /\ n.attrs.language \in {Absent} \cup Languages
    /\ n.type \in {"heading", "paragraph", "codeBlock"} =>
          \A i \in DOMAIN n.content : TextNode(n.content[i])

\* PostContent in partial mode: every block but the last validates, the
\* last one validates as far as it has arrived
PartialPostContent(doc) ==
    /\ doc.type = "doc"
    /\ \A i \in DOMAIN doc.content :
          IF i < Len(doc.content)
          THEN PostContent([type |-> "doc", content |-> <<doc.content[i]>>])
          ELSE \/ PostContent([type |-> "doc", content |-> <<doc.content[i]>>])
               \/ PartialBlock(doc.content[i])

Unreplaced(text) == {i \in DOMAIN text : text[i] \in Placeholders}

\* C28: the system instruction sent to the provider is the template with
\* each of {{TONE}}, {{FORMAT}} and {{STYLE}} replaced (none is left in
\* the text), and the request is exactly two messages: the system
\* instruction, then the user prompt
C28_PlaceholdersAllReplaced ==
    st_messages # <<>> =>
        /\ Len(st_messages) = 2
        /\ st_messages[1].role = "system"
        /\ Len(st_messages[1].content) = Len(st_template)
        /\ Unreplaced(st_messages[1].content) = {}
        /\ st_messages[2] = [role |-> "user", content |-> <<st_request.prompt>>]

\* what does hold of the request: two messages, the tone put in, every
\* other fragment of the template as it was
C28_OnlyToneReplaced ==
    st_messages # <<>> =>
        /\ Len(st_messages) = 2
        /\ st_messages[1].role = "system"
        /\ Len(st_messages[1].content) = Len(st_template)
        /\ \A i \in DOMAIN st_template :
              st_messages[1].content[i] =
                  IF st_template[i] = "{{TONE}}" THEN st_request.tone
                  ELSE st_template[i]
        /\ st_messages[2] = [role |-> "user", content |-> <<st_request.prompt>>]

\* ------------------------------------------------------------- claim C29
\* C29: after any sequence of upload_image calls, every Image row of the
\* database has its file in the upload directory
C29_RecordsHaveFiles ==
    \A r \in db : Exists(files, r.filename)

\* the same, for the calls the disk and the database never failed
C29_RecordsHaveFilesNoFault ==
    (\A u \in UploadCalls : NoFault(u)) => C29_RecordsHaveFiles

\* ====================== S3MediaUploader: list_media, get_media, delete_media
\* the operations of the uploader a call can be: "svc" is generate_image,
\* which runs upload_media
MediaKinds == {"list", "get", "delete"}

\* the keys asked for: the key generate_image stores its asset under, and a
\* key nothing is stored under
MediaKeys == {<<"0f0e-aa", ".", "png">>, <<"ffff-00", ".", "png">>}

\* an object an earlier upload_media has put into the bucket
StoredObject ==
    [Key |-> <<"0f0e-aa", ".", "png">>, Body |-> <<"png bytes">>,
     ContentType |-> "image/png",
     Metadata |-> [media_type |-> "image", prompt |-> "a red fox",
                   model |-> FLUX_PRO_1_1_ULTRA]]

\* str(e) of the HTTPException the except clause of the operation raises
MediaError(k) ==
    IF k = "list" THEN HTTPExceptionStr("500", <<"Error listing files">>)
    ELSE HTTPExceptionStr("404", <<"File not found">>)

\* the except clause of list_media, get_media, delete_media: whatever was
\* raised (noted in the journal as ev), the HTTPException of the operation
\* leaves the call
MediaRaise(c, ev) ==
    /\ Logged(c, ev)
    /\ raised' = Set(raised, c, MediaError(kind[c]))
    /\ pc' = Set(pc, c, "done")
    /\ UNCHANGED returned

\* the dict get_media returns
MediaInfo(o) ==
    [type |-> "media", key |-> o.Key,
     url |-> get_object_url(MINIO_BUCKET_NAME, o.Key),
     content_type |-> o.ContentType, metadata |-> o.Metadata]

\* _ensure_bucket_exists in list_media, get_media, delete_media:
\* head_bucket answers
media_ensure_bucket_exists(c) ==
    /\ kind[c] \in MediaKinds
    /\ pc[c] = "start"
    /\ \/ \* an exception that is no ClientError
          MediaRaise(c, "head_bucket failed")
       \/ /\ bucket
          /\ pc' = Set(pc, c, "operation")
          /\ UNCHANGED <<returned, raised, log>>
       \/ \* ClientError: the bucket is missing
          /\ ~bucket
          /\ pc' = Set(pc, c, "create_bucket")
          /\ UNCHANGED <<returned, raised, log>>
    /\ UNCHANGED <<max_attempts, kind, request, task_id, attempt, polled,
                   image_url, download, unique_filename, shared>>
    /\ UNCHANGED nonImage

\* _ensure_bucket_exists in list_media, get_media, delete_media:
\* create_bucket answers
media_create_bucket(c) ==
    /\ kind[c] \in MediaKinds
    /\ pc[c] = "create_bucket"
    /\ \/ /\ MediaRaise(c, "create_bucket failed")
          /\ UNCHANGED bucket
       \/ \* the bucket exists by now: ClientError BucketAlreadyOwnedByYou
          /\ bucket
          /\ MediaRaise(c, "BucketAlreadyOwnedByYou")
          /\ UNCHANGED bucket
       \/ /\ ~bucket
          /\ bucket' = TRUE
          /\ Logged(c, "create_bucket")
          /\ pc' = Set(pc, c, "operation")
          /\ UNCHANGED <<returned, raised>>
    /\ UNCHANGED <<max_attempts, kind, request, task_id, attempt, polled,
                   image_url, download, unique_filename, objects, files, db>>
    /\ UNCHANGED nonImage

\* list_media: list_objects_v2 answers, head_object answers for every key
\* listed, and the listing is returned; any of the requests may fail
list_media(c) ==
    /\ kind[c] = "list"
    /\ pc[c] = "operation"
    /\ \/ MediaRaise(c, "list_objects_v2 failed")
       \/ MediaRaise(c, "head_object failed")
       \/ /\ Logged(c, "list_objects_v2")
          /\ Return(c, [type |-> "listing",
                        contents |-> {MediaInfo(o) : o \in objects}])
    /\ UNCHANGED <<max_attempts, kind, request, task_id, attempt, polled,
                   image_url, download, unique_filename, shared>>
    /\ UNCHANGED nonImage

\* get_media: head_object answers; a key that is not stored is a ClientError
get_media(c) ==
    /\ kind[c] = "get"
    /\ pc[c] = "operation"
    /\ \/ MediaRaise(c, "head_object failed")
       \/ /\ ~ \E o \in objects : o.Key = request[c].key
          /\ MediaRaise(c, "head_object: Not Found")
       \/ \E o \in objects :
            /\ o.Key = request[c].key
            /\ Logged(c, "head_object")
            /\ Return(c, MediaInfo(o))
    /\ UNCHANGED <<max_attempts, kind, request, task_id, attempt, polled,
                   image_url, download, unique_filename, shared>>
    /\ UNCHANGED nonImage

\* delete_media: delete_object answers; the store removes the object if it
\* holds it and answers alike if it does not
delete_media(c) ==
    /\ kind[c] = "delete"
    /\ pc[c] = "operation"
    /\ \/ /\ MediaRaise(c, "delete_object failed")
          /\ UNCHANGED objects
       \/ /\ objects' = {o \in objects : o.Key # request[c].key}
          /\ Logged(c, IF \E o \in objects : o.Key = request[c].key
                       THEN "delete_object" ELSE "delete_object: no such key")
          /\ Return(c, [type |-> "NoneType"])
    /\ UNCHANGED <<max_attempts, kind, request, task_id, attempt, polled,
                   image_url, download, unique_filename, bucket, files, db>>
    /\ UNCHANGED nonImage

\* two calls on one bucket: the first is any operation of the uploader, the
\* second lists, gets or deletes
InitMedia ==
    /\ max_attempts = RaceAttempts
    /\ kind \in {k \in [Calls -> MediaKinds \cup {"svc"}] : k[2] \in MediaKinds}
    /\ request \in {r \in [Calls -> Requests \cup [key : MediaKeys]
                                   \cup {[prefix |-> None]}] :
            \A c \in Calls :
                IF kind[c] = "svc"
                THEN r[c] = CHOOSE q \in Requests : q.output_format = "png"
                ELSE IF kind[c] = "list" THEN r[c] = [prefix |-> None]
                ELSE r[c] \in [key : MediaKeys]}
    /\ FreshCalls
    /\ bucket \in BOOLEAN
    /\ objects \in (IF bucket THEN {{}, {StoredObject}} ELSE {{}})
    /\ files = {}
    /\ db = {}
    /\ NoStream
    /\ NoSchema
    /\ NoUploads

NextMedia ==
    \E c \in Calls :
        \/ start_image_generation(c)
        \/ poll_generation_status(c)
        \/ check_generation_status(c)
        \/ sleep(c)
        \/ download_generated_image(c)
        \/ upload_to_s3(c)
        \/ ensure_bucket_exists(c)
        \/ create_bucket(c)
        \/ put_object(c)
        \/ handle_ready_status(c)
        \/ media_ensure_bucket_exists(c)
        \/ media_create_bucket(c)
        \/ list_media(c)
        \/ get_media(c)
        \/ delete_media(c)

SpecMedia == InitMedia /\ [][NextMedia]_vars

\* ------------------------------------------------------ claims C21, C27
\* the requests to the store that failed for a reason other than a missing
\* key (the network, the server, a bucket created in between)
MediaFaults ==
    StorageFaults \cup {"BucketAlreadyOwnedByYou", "list_objects_v2 failed",
                        "delete_object failed"}

\* the key asked for was not stored when the store was asked
MissingKey == {"head_object: Not Found", "delete_object: no such key"}

\* call c is over and the journal of its requests holds one of evs
Ended(c, evs) ==
    /\ pc[c] = "done"
    /\ \E i \in DOMAIN log[c] : log[c][i] \in evs

\* the status of the HTTPException that left the operation, "" if none did
StatusOf(c) ==
    IF Len(raised[c]) = 3 /\ raised[c][2] = ": " THEN raised[c][1] ELSE ""

\* a failure of upload_media or list_media surfaces with status 500
C27_UploadListFailure500 ==
    \A c \in Calls :
        (kind[c] \in {"svc", "list"} /\ Ended(c, MediaFaults))
        => StatusOf(c) = "500"

\* get_media of a key that does not exist surfaces with status 404
C27_GetMissingKey404 ==
    \A c \in Calls :
        (kind[c] = "get" /\ Ended(c, MissingKey)) => StatusOf(c) = "404"

\* delete_media of a key that does not exist surfaces with status 404
C27_DeleteMissingKey404 ==
    \A c \in Calls :
        (kind[c] = "delete" /\ Ended(c, MissingKey)) => StatusOf(c) = "404"

\* a get_media or delete_media failure that is no missing key surfaces
\* with status 500
C27_OtherFailure500 ==
    \A c \in Calls :
        (kind[c] \in {"get", "delete"} /\ Ended(c, MediaFaults))
        => StatusOf(c) = "500"

\* C27: a failure of upload_media or list_media surfaces with status 500;
\* get_media or delete_media of a key that does not exist surfaces with
\* status 404; any other failure of get_media or delete_media surfaces
\* with status 500
C27_StorageErrorStatus ==
    /\ C27_UploadListFailure500
    /\ C27_GetMissingKey404
    /\ C27_DeleteMissingKey404
    /\ C27_OtherFailure500

\* where call c is inside upload_media
InUploadMedia(c) ==
    /\ kind[c] = "svc"
    /\ pc[c] \in {"upload", "head_bucket", "create_bucket", "put_object",
                  "head_object"}

\* where call c is inside list_media, get_media or delete_media
InMediaOperation(c) ==
    /\ kind[c] \in MediaKinds
    /\ pc[c] \in {"start", "create_bucket", "operation"}

\* C21: every failure while upload_media, list_media, get_media or
\* delete_media is running reaches the caller as the HTTPException of the
\* operation, never as the raw exception, and ends the operation (nothing
\* is retried)
C21_FailuresBecomeStorageError ==
    [][\A c \in Calls :
          /\ (InUploadMedia(c) /\ raised'[c] # NoException)
             => (raised'[c] = ErrorUploadingFile /\ pc'[c] = "done")
          /\ (InMediaOperation(c) /\ raised'[c] # NoException)
             => (raised'[c] = MediaError(kind[c]) /\ pc'[c] = "done")
          /\ ((InUploadMedia(c) \/ InMediaOperation(c))
                /\ Len(log'[c]) > Len(log[c])
                /\ log'[c][Len(log'[c])] \in MediaFaults)
             => (raised'[c] # NoException /\ pc'[c] = "done")]_vars

\* the same for the failures inside the try blocks: the requests to the
\* store
C21_StoreFailuresBecomeStorageError ==
    [][\A c \in Calls :
          ((InUploadMedia(c) \/ InMediaOperation(c))
             /\ Len(log'[c]) > Len(log[c])
             /\ log'[c][Len(log'[c])] \in MediaFaults \cup MissingKey
             /\ raised'[c] # NoException)
          => /\ pc'[c] = "done"
             /\ raised'[c] = IF kind[c] = "svc" THEN ErrorUploadingFile
                              ELSE MediaError(kind[c])]_vars

\* ================== POST /login/magic-link, POST /password-recovery/{email}
\* the addresses asked about
Emails == {"ann@x.org", "bob@x.org"}

\* the user tables: at most one row for an address
UserTables ==
    {t \in SUBSET [email : Emails, is_active : BOOLEAN] :
        \A r, q \in t : r.email = q.email => r = q}

\* crud.get_user_by_email: the rows of that address, none or one
get_user_by_email(table, email) == {r \in table : r.email = email}

\* what the client receives: the status code and the JSON body
JSONResponse(status_code, key, text) ==
    [type |-> "json", status_code |-> status_code, body |-> <<key, text>>]

\* an exception no handler catches: the server's own answer
InternalServerError ==
    [type |-> "text", status_code |-> 500, body |-> <<"Internal Server Error">>]

\* the parameters of email_sender.send_email
send_email_parameters == {"to_email", "subject", "body"}

\* calling send_email with these keyword arguments raises TypeError
UnexpectedKeyword(keywords) == \E k \in keywords : k \notin send_email_parameters

\* request_magic_link, from the answer of the lookup to the response
request_magic_link(c) ==
    /\ kind[c] = "magic_link"
    /\ pc[c] = "start"
    /\ \/ /\ Logged(c, "get_user_by_email failed")
          /\ Return(c, InternalServerError)
       \/ LET user == get_user_by_email(db, request[c].email)
          IN  IF user = {}
              THEN /\ Logged(c, "no user")
                   /\ Return(c, JSONResponse(200, "message",
                          "If your email is registered, you'll receive a magic link"))
              ELSE IF \E r \in user : ~r.is_active
              THEN /\ Logged(c, "inactive user")
                   /\ Return(c, JSONResponse(400, "detail", "Inactive user"))
              ELSE /\ Logged(c, "add_task send_email")
                   /\ Return(c, JSONResponse(200, "message",
                          "If your email is registered, you'll receive a magic link"))
    /\ UNCHANGED <<max_attempts, kind, request, task_id, attempt, polled,
                   image_url, download, unique_filename, shared>>
    /\ UNCHANGED nonImage

\* recover_password, from the answer of the lookup to the response
recover_password(c) ==
    /\ kind[c] = "recover_password"
    /\ pc[c] = "start"
    /\ \/ /\ Logged(c, "get_user_by_email failed")
          /\ Return(c, InternalServerError)
       \/ LET user == get_user_by_email(db, request[c].email)
          IN  IF user = {}
              THEN /\ Logged(c, "no user")
                   /\ Return(c, JSONResponse(200, "message",
                          "If your email is registered, you'll receive a password recovery email."))
              ELSE IF UnexpectedKeyword({"email_to", "subject", "html_content"})
              THEN /\ Logged(c, "send_email: TypeError")
                   /\ Return(c, InternalServerError)
              ELSE /\ Logged(c, "send_email")
                   /\ Return(c, JSONResponse(200, "message",
                          "If your email is registered, you'll receive a password recovery email."))
    /\ UNCHANGED <<max_attempts, kind, request, task_id, attempt, polled,
                   image_url, download, unique_filename, shared>>
    /\ UNCHANGED nonImage

\* two requests, each to one of the two routes and about one address
InitLogin ==
    /\ max_attempts = MaxAttempts
    /\ kind \in [Calls -> {"magic_link", "recover_password"}]
    /\ request \in [Calls -> [email : Emails]]
    /\ FreshCalls
    /\ db \in UserTables
    /\ bucket = FALSE
    /\ objects = {}
    /\ files = {}
    /\ NoStream
    /\ NoSchema
    /\ NoUploads

NextLogin ==
    \E c \in Calls :
        \/ request_magic_link(c)
        \/ recover_password(c)

SpecLogin == InitLogin /\ [][NextLogin]_vars

\* ------------------------------------------------------------- claim C30
\* the address of call c belongs to an account
Registered(c) == get_user_by_email(db, request[c].email) # {}

\* call c has its response and the lookup of the user did not fail
Answered(c) ==
    /\ pc[c] = "done"
    /\ \A i \in DOMAIN log[c] : log[c][i] # "get_user_by_email failed"

\* C30: the responses of request_magic_link and recover_password do not
\* reveal whether an address belongs to an account: a request about a
\* registered address, active or not, and one about an address that is not
\* registered get the same status code and body
C30_ResponseHidesAccount ==
    \A c, d \in Calls :
        (/\ kind[c] = kind[d]
         /\ Answered(c)
         /\ Answered(d)
         /\ Registered(c)
         /\ ~Registered(d))
        => returned[c] = returned[d]

\* what holds: request_magic_link answers a request about an active
\* account as it answers one about no account
C30_ActiveAccountHiddenByMagicLink ==
    \A c, d \in Calls :
        (/\ kind[c] = "magic_link"
         /\ kind[d] = "magic_link"
         /\ Answered(c)
         /\ Answered(d)
         /\ \E r \in get_user_by_email(db, request[c].email) : r.is_active
         /\ ~Registered(d))
        => returned[c] = returned[d]
====
